---------------------------- MODULE Spec2Model ----------------------------
(***************************************************************************)
(* Model of the CyberMix desktop controllers.  The repository holds four   *)
(* host programs that drive the same control surface:                      *)
(*   "cli"     cybermix.py          DesktopController (headless loop)      *)
(*   "gui"     cybermix.py          run_gui: SerialWorker + MainWindow     *)
(*   "gui2"    cybermix_gui.py      SerialWorker + MainWindow              *)
(*   "desktop" cybermix_desktop.py  main()                                 *)
(* Strings are sequences of Unicode code points, bytes are 0..255, a       *)
(* Python None is the empty sequence, a float scalar val/127.0 is kept as  *)
(* the exact fraction num/den.                                             *)
(***************************************************************************)
EXTENDS Integers, Sequences, FiniteSets, TLC

(***************************************************************************)
(* Bounds of the model.                                                    *)
(***************************************************************************)
\* most bytes the serial input buffer holds
MaxBuf == 7
\* most disconnected iterations of the headless loop (its counter is unbounded)
MaxAttempt == 41
\* most fader_update emissions waiting in the GUI thread's event queue
MaxQueue == 1
\* most UTF-8 bytes of a text handed to the screen-update encoder
MaxTextBytes == 17
\* most operations of the user on the assignment table after construction
MaxOps == 2
\* most names, of audio sessions and of running processes together, a
\* directory is built from
MaxNames == 3
\* most audio sessions open when a volume is set
MaxSessions == 3
\* most fader reports the device sends in a framing run
MaxFrames == 3

(***************************************************************************)
(* Program constants.                                                      *)
(***************************************************************************)
FADER_COUNT == 5
Slots == 0..(FADER_COUNT - 1)

\* "System Master Volume"
SystemMasterVolume ==
  <<83, 121, 115, 116, 101, 109, 32, 77, 97, 115, 116, 101, 114, 32, 86, 111, 108, 117, 109, 101>>

\* ['chrome.exe', 'discord.exe', 'spotify.exe', 'vlc.exe', 'system']
APP_NAMES ==
  << <<99, 104, 114, 111, 109, 101, 46, 101, 120, 101>>,
     <<100, 105, 115, 99, 111, 114, 100, 46, 101, 120, 101>>,
     <<115, 112, 111, 116, 105, 102, 121, 46, 101, 120, 101>>,
     <<118, 108, 99, 46, 101, 120, 101>>,
     <<115, 121, 115, 116, 101, 109>> >>

\* app_names of cybermix_desktop.main, the same five names
desktop_app_names ==
  << <<99, 104, 114, 111, 109, 101, 46, 101, 120, 101>>,
     <<100, 105, 115, 99, 111, 114, 100, 46, 101, 120, 101>>,
     <<115, 112, 111, 116, 105, 102, 121, 46, 101, 120, 101>>,
     <<118, 108, 99, 46, 101, 120, 101>>,
     <<115, 121, 115, 116, 101, 109>> >>

\* 'OLED Preview', the text of a preview label before its first update
OledPreviewText == <<79, 76, 69, 68, 32, 80, 114, 101, 118, 105, 101, 119>>

\* the placeholder "---" of an unassigned slot
Placeholder == <<45, 45, 45>>

\* ord('F') and ord('S')
TagF == 70
TagS == 83

\* Python None and the Option encoding: None is <<>>, a value x is <<x>>
None == <<>>
Some(x) == <<x>>

(***************************************************************************)
(* Python and Qt primitives.                                               *)
(***************************************************************************)
Min(a, b) == IF a < b THEN a ELSE b
Max(a, b) == IF a > b THEN a ELSE b

\* s[:n]
Prefix(s, n) == SubSeq(s, 1, Min(n, Len(s)))

\* s[n:]
Suffix(s, n) == SubSeq(s, Min(n, Len(s)) + 1, Len(s))

\* sub in s
Contains(s, sub) ==
  \E i \in 1..(Len(s) - Len(sub) + 1) : SubSeq(s, i, i + Len(sub) - 1) = sub

\* str(n) for n >= 0
RECURSIVE IntToStr(_)
IntToStr(n) ==
  IF n < 10 THEN <<48 + n>> ELSE IntToStr(n \div 10) \o <<48 + (n % 10)>>

\* the UTF-8 bytes of one code point
Utf8Char(cp) ==
  IF cp < 128 THEN <<cp>>
  ELSE IF cp < 2048 THEN <<192 + (cp \div 64), 128 + (cp % 64)>>
  ELSE IF cp < 65536
    THEN <<224 + (cp \div 4096), 128 + ((cp \div 64) % 64), 128 + (cp % 64)>>
    ELSE <<240 + (cp \div 262144), 128 + ((cp \div 4096) % 64),
           128 + ((cp \div 64) % 64), 128 + (cp % 64)>>

\* text.encode('utf-8')
RECURSIVE Utf8Encode(_)
Utf8Encode(text) ==
  IF text = <<>> THEN <<>> ELSE Utf8Char(Head(text)) \o Utf8Encode(Tail(text))

\* int(val / 127.0 * 100): the float product is never within rounding error of
\* an integer unless it is one, so the truncation is the integer quotient
IntPercent(val) == (val * 100) \div 127

\* QSlider.setValue bounds the value to the slider's range 0..127
SliderBound(val) == Max(0, Min(127, val))

(***************************************************************************)
(* Frame codec (cybermix.py).                                              *)
(***************************************************************************)
\* the encoder with the text cut to 16 characters before it is encoded
screen_update_msg_chars(screen_idx, text) ==
  <<TagS>> \o <<screen_idx>> \o Utf8Encode(Prefix(text, 16))

\* the frame b'S' + bytes([screen_idx]) + text.encode('utf-8')[:16]
screen_update_msg(screen_idx, text) ==
  <<TagS>> \o <<screen_idx>> \o Prefix(Utf8Encode(text), 16)

\* send_screen_update: the frames written to ser, none when ser is None
send_screen_update(s, screen_idx, text) ==
  IF s # None THEN <<screen_update_msg(screen_idx, text)>> ELSE <<>>

\* the decoder without the test of the tag byte
read_fader_data_untagged(s, buf) ==
  IF s # None /\ Len(buf) >= 6
    THEN [result |-> Tail(SubSeq(buf, 1, 6)), rest |-> Suffix(buf, 6)]
    ELSE [result |-> None, rest |-> buf]

\* the decoder reading as soon as one byte waits: read(6) then returns what
\* there is when its timeout ends
read_fader_data_short(s, buf) ==
  IF s # None /\ Len(buf) >= 1
    THEN LET data == Prefix(buf, 6)
         IN  [result |-> IF data[1] = TagF THEN Tail(data) ELSE None,
              rest   |-> Suffix(buf, 6)]
    ELSE [result |-> None, rest |-> buf]

\* read_fader_data on a port whose input buffer holds buf: the list returned
\* (None when no report) and the bytes left in the buffer
read_fader_data(s, buf) ==
  IF s # None /\ Len(buf) >= 6
    THEN LET data == SubSeq(buf, 1, 6)
         IN  [result |-> IF data[1] = TagF THEN Tail(data) ELSE None,
              rest   |-> Suffix(buf, 6)]
    ELSE [result |-> None, rest |-> buf]

\* the display text with the percentage rounded to the nearest integer
oled_text_rounded(label, val) ==
  label \o <<58, 32>> \o IntToStr((val * 200 + 127) \div 254) \o <<37>>

\* the display text f"{label}: {int(val/127.0*100)}%"
oled_text(label, val) ==
  label \o <<58, 32>> \o IntToStr(IntPercent(val)) \o <<37>>

(***************************************************************************)
(* The environment: serial ports, the device's byte stream, the outcome of *)
(* a volume backend call.                                                  *)
(***************************************************************************)
\* 'XIAO' and 'USB Serial'
SigXIAO == <<88, 73, 65, 79>>
SigUSBSerial == <<85, 83, 66, 32, 83, 101, 114, 105, 97, 108>>

\* COM3 "Seeed XIAO RP2040", COM7 "USB Serial Device", COM9 "Bluetooth Link"
PortXiao ==
  [device |-> "COM3",
   description |-> <<83, 101, 101, 101, 100, 32, 88, 73, 65, 79, 32, 82, 80, 50, 48, 52, 48>>]
PortUsb ==
  [device |-> "COM7",
   description |-> <<85, 83, 66, 32, 83, 101, 114, 105, 97, 108, 32, 68, 101, 118, 105, 99, 101>>]
PortOther ==
  [device |-> "COM9",
   description |-> <<66, 108, 117, 101, 116, 111, 111, 116, 104, 32, 76, 105, 110, 107>>]

\* the lists comports() may return
PortLists == { <<>>, <<PortOther>>, <<PortOther, PortUsb, PortXiao>> }

\* find_serial_port: the device of the first matching port, or None
find_serial_port(ports) ==
  LET match == {i \in 1..Len(ports) :
                  \/ Contains(ports[i].description, SigXIAO)
                  \/ Contains(ports[i].description, SigUSBSerial)}
  IN  IF match = {} THEN None
      ELSE Some(ports[CHOOSE i \in match : \A j \in match : i <= j].device)

\* what the device may put on the wire in one burst: the report of the
\* end-to-end scenario, a report with a byte above 127 and with the slider
\* default 64, a stray byte that misaligns the stream
Chunks == { <<70, 10, 20, 30, 40, 50>>, <<70, 127, 64, 200, 0, 64>>, <<9>> }

\* a backend call succeeds, fails inside the volume interface
\* (QueryInterface, SetMasterVolume...), or fails enumerating the sessions
VolOutcomes == {"ok", "set_fail", "enum_fail"}

\* the slots at which a fault is injected: the first one and a middle one
FaultSlots == {0, 2}

\* what goes wrong during one tick, at most one thing: nothing; the port
\* fails on in_waiting or read; the backend call of one slot fails; the write
\* of one slot's frame fails
FaultPlans ==
  {[kind |-> "none", slot |-> 0], [kind |-> "read", slot |-> 0]}
    \cup {[kind |-> k, slot |-> i] :
            k \in {"set_fail", "enum_fail", "write_fail"}, i \in FaultSlots}

\* the outcome of slot i's backend call under the plan f
VolOutcome(f, i) ==
  IF f.slot = i /\ f.kind \in {"set_fail", "enum_fail"} THEN f.kind ELSE "ok"

\* the write of slot i's frame raises under the plan f
WriteFails(f, i) == f.slot = i /\ f.kind = "write_fail"

\* the least element of a set of slots, d when it is empty
FirstOr(S, d) == IF S = {} THEN d ELSE CHOOSE i \in S : \A j \in S : i <= j

VARIABLES
  variant,            \* which of the four programs runs
  pc,                 \* "run": the tick loop is alive; "crashed": an exception
                      \* left it; "aborted": the exception ended the process
  ser,                \* the open port, None when there is none
  attempt,            \* DesktopController.run's local counter
  fader_vals,         \* self.fader_vals (cli), the local fader_vals (desktop)
  fader_sliders,      \* the five slider values (gui, gui2)
  fader_assignments,  \* channel of each slot, None when unassigned (gui, gui2)
  oled_previews,      \* the five preview texts (gui, gui2)
  led_bar,            \* the LED bar percentage (gui, gui2)
  page,               \* the page of the process list being browsed (gui, gui2)
  settings_file,      \* content of cybermix_settings.json, None when missing
  sigQueue,           \* fader_update emissions queued for the GUI thread
  rxBuf,              \* bytes waiting in the port's input buffer
  wire,               \* bytes the device has sent that have not arrived yet
  discovered,         \* history: find_serial_port has returned a port
  cadence,            \* history: ticks between discovery attempts
  obs,                \* history: what the last step did
  encText,            \* encoder run: the text to encode
  encOut,             \* encoder run: the slot index and the frames written
  processes,          \* self.processes, the directory read at construction
  tobs,               \* history: what the last operation on the table did
  running,            \* self.running of the worker or the controller
  worker,             \* the line the polling loop is at
  ui,                 \* the line the stopping thread is at
  closed,             \* self.ser.close() has been called on the open port
  sobs,               \* history: accesses of the port around its close
  dirIn,              \* directory run: the sessions and the processes
  dirOut,             \* directory run: what get_processes returned
  volIn,              \* volume run: the audio sessions and the channel
  volOut,             \* volume run: what set_app_volume did to the sessions
  sent                \* history: the payloads of the frames the device sent

guiVars == <<fader_sliders, fader_assignments, oled_previews, led_bar, page,
             settings_file, sigQueue>>
encVars == <<encText, encOut>>
tableVars == <<processes, tobs>>
stopVars == <<running, worker, ui, closed, sobs>>
dirVars == <<dirIn, dirOut>>
volVars == <<volIn, volOut>>
sideVars == <<tableVars, stopVars, dirVars, volVars, sent>>
vars == <<variant, pc, ser, attempt, fader_vals, fader_sliders,
          fader_assignments, oled_previews, led_bar, page, settings_file, sigQueue,
          rxBuf, wire, discovered, cadence, obs, encText, encOut,
          processes, tobs, running, worker, ui, closed, sobs, dirIn, dirOut,
          volIn, volOut, sent>>

Variants == {"cli", "gui", "gui2", "desktop"}

\* the observation of a step that did nothing observable
NoObs ==
  [kind |-> "init", cause |-> "", vals |-> <<>>, before |-> <<>>,
   table |-> <<>>, volCalls |-> <<>>, volFailed |-> {}, serWrites |-> <<>>,
   texts |-> <<>>, read |-> <<>>]

\* the table history of a state no operation on the table led to
NoTobs == [op |-> "none", n |-> 0]

\* the port history of a run in which nothing touched a closed port
NoSobs == [overlap |-> FALSE, afterClose |-> FALSE]

\* cadence after a disconnected tick that did (tried) or did not attempt discovery
CadenceAfter(tried) ==
  IF tried
    THEN [since |-> 1,
          first |-> IF cadence.since > 0 /\ cadence.first = 0
                      THEN cadence.since ELSE cadence.first,
          last  |-> IF cadence.since > 0 THEN cadence.since ELSE cadence.last]
    ELSE [cadence EXCEPT !.since = IF @ > 0 THEN @ + 1 ELSE 0]

\* the state after construction of the program v, started without a settings
\* file (a first run); a new QProgressBar has the value -1
InitOf(v) ==
  /\ variant = v
  /\ pc = "run"
  /\ ser = None
  /\ attempt = 0
  /\ fader_vals = IF v = "cli" THEN <<64, 64, 64, 64, 64>> ELSE None
  /\ fader_sliders = <<64, 64, 64, 64, 64>>
  /\ fader_assignments = <<Some(SystemMasterVolume), None, None, None, None>>
  /\ oled_previews = [i \in 1..FADER_COUNT |-> OledPreviewText]
  /\ led_bar = -1
  /\ page = 0
  /\ settings_file = None
  /\ sigQueue = <<>>
  /\ rxBuf = <<>>
  /\ wire = <<>>
  /\ discovered = FALSE
  /\ cadence = [since |-> 0, first |-> 0, last |-> 0]
  /\ obs = NoObs
  /\ encText = <<>>
  /\ encOut = None
  /\ processes = IF v \in {"gui", "gui2"} THEN <<SystemMasterVolume>> ELSE <<>>
  /\ tobs = NoTobs
  /\ running = TRUE
  /\ worker = "while"
  /\ ui = "idle"
  /\ closed = FALSE
  /\ sobs = NoSobs
  /\ dirIn = [sessions |-> <<>>, procs |-> <<>>]
  /\ dirOut = None
  /\ volIn = [sessions |-> <<>>, ch |-> <<>>]
  /\ volOut = None
  /\ sent = <<>>

Init == \E v \in Variants : InitOf(v)

(***************************************************************************)
(* The device.                                                             *)
(***************************************************************************)
\* the device starts sending a burst
DeviceSend ==
  /\ pc = "run" /\ ser # None /\ wire = <<>>
  /\ \E c \in Chunks : wire' = c
  /\ obs' = [NoObs EXCEPT !.kind = "env"]
  /\ UNCHANGED <<variant, pc, ser, attempt, fader_vals, guiVars, rxBuf,
                 discovered, cadence, encVars, sideVars>>

\* one byte arrives in the port's input buffer
Arrive ==
  /\ pc = "run" /\ ser # None /\ wire # <<>> /\ Len(rxBuf) < MaxBuf
  /\ rxBuf' = Append(rxBuf, Head(wire))
  /\ wire' = Tail(wire)
  /\ obs' = [NoObs EXCEPT !.kind = "env"]
  /\ UNCHANGED <<variant, pc, ser, attempt, fader_vals, guiVars,
                 discovered, cadence, encVars, sideVars>>

(***************************************************************************)
(* cybermix.py, the headless DesktopController.                            *)
(***************************************************************************)
\* connect(): the value of self.ser afterwards
DesktopController_connect(ports, openOk) ==
  LET port == find_serial_port(ports)
  IN  IF port # None /\ openOk THEN port ELSE None

\* set_app_volume of cybermix.py lets an exception out only when the session
\* enumeration of a non-master channel fails; the rest is inside try/except
set_app_volume_raises(app_name, outcome) ==
  app_name # SystemMasterVolume /\ outcome = "enum_fail"

\* the record of one call of the volume backend
VolCall(i, ch, val) == [slot |-> i, ch |-> ch, num |-> val, den |-> 127]

\* one iteration of run() while self.ser is None (lines 144-147, 160)
DesktopController_run_reconnect ==
  /\ variant = "cli" /\ pc = "run" /\ ser = None
  /\ attempt < MaxAttempt
  /\ IF attempt % 20 = 0
       THEN \E ports \in PortLists, openOk \in BOOLEAN :
              /\ ser' = DesktopController_connect(ports, openOk)
              /\ discovered' = (discovered \/ find_serial_port(ports) # None)
              /\ cadence' = CadenceAfter(TRUE)
              /\ obs' = [NoObs EXCEPT !.kind = "attempt"]
       ELSE /\ cadence' = CadenceAfter(FALSE)
            /\ obs' = [NoObs EXCEPT !.kind = "idle"]
            /\ UNCHANGED <<ser, discovered>>
  /\ attempt' = attempt + 1
  /\ UNCHANGED <<variant, pc, fader_vals, guiVars, rxBuf, wire, encVars, sideVars>>

\* what the slot loop of a tick did before it ended or an exception left it:
\* k is the slot whose iteration raised (FADER_COUNT when none did), volCrash
\* tells whether it was the backend call that raised; texts5 and frames5 are
\* the texts and the frames of a loop that runs to its end (frames5 is empty
\* when there is no port to write to)
LoopObs(kind, f, r, before, vals, names, k, volCrash, texts5, frames5) ==
  LET nCalls == Min(k + 1, FADER_COUNT)
      nTexts == IF volCrash THEN k ELSE nCalls
  IN  [kind |-> kind,
       cause |-> IF k = FADER_COUNT THEN ""
                 ELSE IF volCrash THEN "volume" ELSE "write",
       vals |-> vals,
       before |-> before,
       table |-> [j \in 1..FADER_COUNT |-> Some(names[j])],
       volCalls |-> [j \in 1..nCalls |-> VolCall(j - 1, names[j], vals[j])],
       volFailed |-> {i \in 0..(nCalls - 1) : VolOutcome(f, i) # "ok"},
       serWrites |-> SubSeq(frames5, 1, Min(k, Len(frames5))),
       texts |-> SubSeq(texts5, 1, nTexts),
       read |-> r]

\* the five texts f"{names[i][:8]}: {int(vol*100)}%" of the headless loops
LoopTexts(names, vals) ==
  [j \in 1..FADER_COUNT |-> oled_text(Prefix(names[j], 8), vals[j])]

\* one iteration of run() while self.ser is open (lines 148-160)
DesktopController_run_poll ==
  /\ variant = "cli" /\ pc = "run" /\ ser # None
  /\ \E f \in FaultPlans :
       IF f.kind = "read"
         THEN /\ pc' = "crashed"
              /\ obs' = [NoObs EXCEPT !.kind = "noframe", !.cause = "read",
                                      !.before = fader_vals]
              /\ UNCHANGED <<fader_vals, rxBuf>>
         ELSE
           \E r \in {read_fader_data(ser, rxBuf)} :
           \E vals \in {IF r.result = None THEN <<64, 64, 64, 64, 64>> ELSE r.result} :
           \E volCrashSlots \in
                {{i \in Slots : set_app_volume_raises(APP_NAMES[i + 1], VolOutcome(f, i))}} :
           \E k \in {FirstOr(volCrashSlots \cup {i \in Slots : WriteFails(f, i)},
                             FADER_COUNT)} :
           \E texts5 \in {LoopTexts(APP_NAMES, vals)} :
             /\ rxBuf' = r.rest
             /\ pc' = IF k = FADER_COUNT THEN "run" ELSE "crashed"
             /\ fader_vals' = IF k = FADER_COUNT THEN vals ELSE fader_vals
             /\ obs' = LoopObs(IF r.result = None THEN "noframe" ELSE "report",
                               f, Some([before |-> rxBuf, result |-> r.result,
                                        after |-> r.rest]),
                               fader_vals, vals, APP_NAMES, k, k \in volCrashSlots,
                               texts5,
                               [j \in 1..FADER_COUNT |->
                                  send_screen_update(ser, j - 1, texts5[j])[1]])
  /\ UNCHANGED <<variant, ser, attempt, guiVars, wire, discovered, cadence, encVars, sideVars>>

(***************************************************************************)
(* cybermix_desktop.py, main().                                            *)
(***************************************************************************)
\* read_fader_data of cybermix_desktop.py
desktop_read_fader_data(s, buf) ==
  IF s # None /\ Len(buf) >= 6
    THEN LET data == SubSeq(buf, 1, 6)
         IN  [result |-> IF data[1] = TagF THEN Tail(data) ELSE None,
              rest   |-> Suffix(buf, 6)]
    ELSE [result |-> None, rest |-> buf]

\* send_screen_update of cybermix_desktop.py: the frames written to ser
desktop_send_screen_update(s, screen_idx, text) ==
  IF s # None
    THEN << <<TagS>> \o <<screen_idx>> \o Prefix(Utf8Encode(text), 16) >>
    ELSE <<>>

\* set_app_volume of cybermix_desktop.py has no try/except: every failure of
\* the backend leaves it as an exception
desktop_set_app_volume_raises(app_name, outcome) == outcome # "ok"

\* [int(127 * (i+1)/5) for i in range(5)]
desktop_simulated == [j \in 1..FADER_COUNT |-> (127 * j) \div 5]

\* lines 95-100 of main(): the loop over fader_vals, which is unbound (None
\* here) until an iteration has assigned it; conn is ser at that point.
\* last_vols is written and never read: it repeats the scalars of volCalls
desktop_main_loop(kind, f, r, vals, conn) ==
  IF vals = None
    THEN /\ pc' = "crashed"
         /\ obs' = [NoObs EXCEPT !.kind = kind, !.cause = "unbound", !.read = r]
    ELSE
      \E volCrashSlots \in
           {{i \in Slots :
               desktop_set_app_volume_raises(desktop_app_names[i + 1], VolOutcome(f, i))}} :
      \E k \in {FirstOr(volCrashSlots \cup
                          {i \in Slots : conn # None /\ WriteFails(f, i)},
                        FADER_COUNT)} :
      \E texts5 \in {LoopTexts(desktop_app_names, vals)} :
        /\ pc' = IF k = FADER_COUNT THEN "run" ELSE "crashed"
        /\ obs' = LoopObs(kind, f, r, fader_vals, vals, desktop_app_names, k,
                          k \in volCrashSlots, texts5,
                          IF conn = None THEN <<>>
                          ELSE [j \in 1..FADER_COUNT |->
                                  desktop_send_screen_update(conn, j - 1, texts5[j])[1]])

\* one iteration of main() while ser is None (lines 78-89, 95-100)
desktop_main_reconnect ==
  /\ variant = "desktop" /\ pc = "run" /\ ser = None
  /\ \E ports \in PortLists, openOk \in BOOLEAN, f \in FaultPlans :
       /\ f.kind # "read"
       /\ \E port \in {find_serial_port(ports)} :
            /\ ser' = IF port # None /\ openOk THEN port ELSE None
            /\ discovered' = (discovered \/ port # None)
            /\ fader_vals' = IF port = None THEN desktop_simulated ELSE fader_vals
       /\ desktop_main_loop("attempt", f, None, fader_vals', ser')
  /\ cadence' = CadenceAfter(TRUE)
  /\ UNCHANGED <<variant, attempt, guiVars, rxBuf, wire, encVars, sideVars>>

\* one iteration of main() while ser is open (lines 90-100)
desktop_main_poll ==
  /\ variant = "desktop" /\ pc = "run" /\ ser # None
  /\ \E f \in FaultPlans :
       IF f.kind = "read"
         THEN /\ pc' = "crashed"
              /\ obs' = [NoObs EXCEPT !.kind = "noframe", !.cause = "read",
                                      !.before = fader_vals]
              /\ UNCHANGED <<fader_vals, rxBuf>>
         ELSE
           \E r \in {desktop_read_fader_data(ser, rxBuf)} :
             /\ rxBuf' = r.rest
             /\ fader_vals' = IF r.result = None THEN desktop_simulated ELSE r.result
             /\ desktop_main_loop(IF r.result = None THEN "noframe" ELSE "report", f,
                                  Some([before |-> rxBuf, result |-> r.result,
                                        after |-> r.rest]),
                                  fader_vals', ser)
  /\ UNCHANGED <<variant, ser, attempt, guiVars, wire, discovered, cadence, encVars, sideVars>>

(***************************************************************************)
(* cybermix.py, run_gui: SerialWorker on its thread, MainWindow on the GUI *)
(* thread.  The connection_status signal only drives the status label and  *)
(* is left out.  An exception that leaves a Python slot is printed and     *)
(* dropped by older PyQt5 and ends the process (qFatal) in PyQt5 >= 5.5:   *)
(* both outcomes are kept.                                                 *)
(***************************************************************************)
\* `if proc`: neither None nor the empty string
Truthy(proc) == proc # None /\ proc[1] # <<>>

\* proc[:8] if proc else "---"
Label(proc) == IF Truthy(proc) THEN Prefix(proc[1], 8) ELSE Placeholder

\* where an exception out of a slot leaves the tick loop
SlotExceptionOutcomes == {"crashed", "aborted"}

\* one iteration of SerialWorker.run while self.ser is None (lines 194-205),
\* in the program v
WorkerReconnect(v) ==
  /\ variant = v /\ pc = "run" /\ ser = None
  /\ \E ports \in PortLists, openOk \in BOOLEAN :
       \E port \in {find_serial_port(ports)} :
         /\ ser' = IF port # None /\ openOk THEN port ELSE None
         /\ discovered' = (discovered \/ port # None)
  /\ cadence' = CadenceAfter(TRUE)
  /\ obs' = [NoObs EXCEPT !.kind = "attempt"]
  /\ UNCHANGED <<variant, pc, attempt, fader_vals, guiVars, rxBuf, wire, encVars, sideVars>>

\* one iteration of SerialWorker.run while self.ser is open (lines 206-212),
\* in the program v
WorkerPoll(v) ==
  /\ variant = v /\ pc = "run" /\ ser # None
  /\ Len(sigQueue) < MaxQueue
  /\ \E readOk \in BOOLEAN :
       IF ~readOk
         THEN /\ pc' \in SlotExceptionOutcomes
              /\ obs' = [NoObs EXCEPT !.kind = "noframe", !.cause = "read",
                                      !.before = fader_sliders]
              /\ UNCHANGED <<rxBuf, sigQueue>>
         ELSE
           \E n \in {IF Len(rxBuf) >= 6 THEN 6 ELSE 0} :
           \E data \in {SubSeq(rxBuf, 1, n)} :
           \E result \in {IF n = 6 /\ data[1] = TagF THEN Tail(data) ELSE None} :
             /\ rxBuf' = Suffix(rxBuf, n)
             /\ sigQueue' = IF result # None THEN Append(sigQueue, result)
                            ELSE sigQueue
             /\ pc' = pc
             /\ obs' = [NoObs EXCEPT
                          !.kind = IF result # None THEN "emit" ELSE "noframe",
                          !.before = fader_sliders,
                          !.read = Some([before |-> rxBuf, result |-> result,
                                         after |-> rxBuf'])]
  /\ UNCHANGED <<variant, ser, attempt, fader_vals, fader_sliders,
                 fader_assignments, oled_previews, led_bar, page, settings_file,
                 wire, discovered, cadence, encVars, sideVars>>

SerialWorker_run_reconnect == WorkerReconnect("gui")

SerialWorker_run_poll == WorkerPoll("gui")

\* MainWindow.update_faders on the next queued fader_update (lines 463-470):
\* the sliders' signals are blocked, so set_app_volume never runs
MainWindow_update_faders ==
  /\ variant = "gui" /\ pc # "aborted" /\ sigQueue # <<>>
  /\ \E vals \in {Head(sigQueue)} :
       /\ fader_sliders' = [j \in 1..FADER_COUNT |-> SliderBound(vals[j])]
       /\ oled_previews' = [j \in 1..FADER_COUNT |->
                              oled_text(Label(fader_assignments[j]), vals[j])]
       /\ led_bar' = IntPercent(fader_sliders'[1])
       /\ obs' = [NoObs EXCEPT !.kind = "report", !.vals = vals,
                               !.before = fader_sliders,
                               !.table = fader_assignments,
                               !.texts = oled_previews']
  /\ sigQueue' = Tail(sigQueue)
  /\ UNCHANGED <<variant, pc, ser, attempt, fader_vals, fader_assignments, page,
                 settings_file, rxBuf, wire, discovered, cadence, encVars, sideVars>>

(***************************************************************************)
(* cybermix_gui.py: the same SerialWorker; MainWindow.update_faders does   *)
(* not block the sliders' signals, so a changed value runs set_app_volume. *)
(***************************************************************************)
gui_SerialWorker_run_reconnect == WorkerReconnect("gui2")

gui_SerialWorker_run_poll == WorkerPoll("gui2")

\* what save_settings writes to the settings file
save_settings(assignments, values, pg) ==
  Some([fader_assignments |-> assignments, fader_values |-> values, page |-> pg])

\* what goes wrong while update_faders runs, at most one thing: nothing; the
\* backend call of one slot fails; the settings file cannot be written
GuiFaultPlans ==
  {[kind |-> "none", slot |-> 0]}
    \cup {[kind |-> k, slot |-> i] :
            k \in {"set_fail", "enum_fail", "save_fail"}, i \in FaultSlots}

\* MainWindow.update_faders of cybermix_gui.py on the next queued fader_update
\* (lines 239-244), with MainWindow.set_app_volume (lines 220-238) run by each
\* slider whose value changes; set_app_volume and save_settings have no
\* try/except
gui_MainWindow_update_faders ==
  /\ variant = "gui2" /\ pc # "aborted" /\ sigQueue # <<>>
  /\ \E vals \in {Head(sigQueue)}, f \in GuiFaultPlans,
        outcome \in {"dropped", "aborted"} :
       LET new(j) == SliderBound(vals[j])
           changed(j) == new(j) # fader_sliders[j]
           calls(j) == changed(j) /\ Truthy(fader_assignments[j])
           raisesVol(j) == calls(j) /\ VolOutcome(f, j - 1) # "ok"
           raisesSave(j) == changed(j) /\ f.kind = "save_fail" /\ f.slot = j - 1
           raises == {j \in 1..FADER_COUNT : raisesVol(j) \/ raisesSave(j)}
       IN
       \E k \in {IF outcome = "aborted" THEN FirstOr(raises, FADER_COUNT + 1)
                 ELSE FADER_COUNT + 1} :
       \E saved \in {{j \in 1..FADER_COUNT : j < k /\ changed(j) /\ j \notin raises}} :
       \E nTexts \in {IF k <= FADER_COUNT /\ ~raisesSave(k) THEN k - 1
                      ELSE Min(k, FADER_COUNT)} :
         /\ outcome = "aborted" => raises # {}
         /\ fader_sliders' = [j \in 1..FADER_COUNT |->
                                IF j <= k THEN new(j) ELSE fader_sliders[j]]
         /\ oled_previews' =
              [j \in 1..FADER_COUNT |->
                 IF j < k THEN oled_text(Label(fader_assignments[j]), vals[j])
                 ELSE IF j = k /\ raisesSave(k)
                   THEN oled_text(Label(fader_assignments[j]), new(j))
                   ELSE oled_previews[j]]
         /\ settings_file' =
              IF saved = {} THEN settings_file
              ELSE LET last == CHOOSE j \in saved : \A i \in saved : i <= j
                   IN  save_settings(fader_assignments,
                                     [j \in 1..FADER_COUNT |->
                                        IF j <= last THEN new(j) ELSE fader_sliders[j]],
                                     page)
         /\ led_bar' = IF k > FADER_COUNT \/ saved # {} THEN IntPercent(new(1))
                       ELSE led_bar
         /\ pc' = IF k <= FADER_COUNT THEN "aborted" ELSE pc
         /\ obs' =
              [kind |-> "report",
               cause |-> IF k > FADER_COUNT THEN ""
                         ELSE IF raisesVol(k) THEN "volume" ELSE "save",
               vals |-> vals,
               before |-> fader_sliders,
               table |-> fader_assignments,
               volCalls |->
                 LET all == [j \in 1..Min(k, FADER_COUNT) |->
                               VolCall(j - 1,
                                       IF Truthy(fader_assignments[j])
                                         THEN fader_assignments[j][1] ELSE <<>>,
                                       new(j))]
                     Called(c) == calls(c.slot + 1)
                 IN  SelectSeq(all, Called),
               volFailed |-> {j - 1 : j \in {i \in 1..Min(k, FADER_COUNT) : raisesVol(i)}},
               serWrites |-> <<>>,
               texts |-> SubSeq(oled_previews', 1, nTexts),
               read |-> <<>>]
  /\ sigQueue' = Tail(sigQueue)
  /\ UNCHANGED <<variant, ser, attempt, fader_vals, fader_assignments, page,
                 rxBuf, wire, discovered, cadence, encVars, sideVars>>

Next ==
  \/ DeviceSend
  \/ Arrive
  \/ DesktopController_run_reconnect
  \/ DesktopController_run_poll
  \/ desktop_main_reconnect
  \/ desktop_main_poll
  \/ SerialWorker_run_reconnect
  \/ SerialWorker_run_poll
  \/ MainWindow_update_faders
  \/ gui_SerialWorker_run_reconnect
  \/ gui_SerialWorker_run_poll
  \/ gui_MainWindow_update_faders

Spec == Init /\ [][Next]_vars

(***************************************************************************)
(* The screen-update encoder on its own: texts are built one character at  *)
(* a time and handed to send_screen_update of either file.                 *)
(***************************************************************************)
\* 'A' (1 byte in UTF-8), U+20AC (3 bytes), U+1F600 (4 bytes)
EncChars == {65, 8364, 128512}

\* slot indexes handed to the encoder
EncSlots == {0, 4}

EncAppend ==
  /\ \E cp \in EncChars :
       /\ Len(Utf8Encode(Append(encText, cp))) <= MaxTextBytes
       /\ encText' = Append(encText, cp)
  /\ encOut' = None
  /\ UNCHANGED <<variant, pc, ser, attempt, fader_vals, guiVars, rxBuf, wire,
                 discovered, cadence, obs, sideVars>>

EncSend ==
  /\ \E i \in EncSlots :
       encOut' = Some([idx |-> i,
                       written |-> send_screen_update(Some("COM7"), i, encText)])
  /\ UNCHANGED <<variant, pc, ser, attempt, fader_vals, guiVars, rxBuf, wire,
                 discovered, cadence, obs, encText, sideVars>>

EncSendDesktop ==
  /\ \E i \in EncSlots :
       encOut' = Some([idx |-> i,
                       written |-> desktop_send_screen_update(Some("COM7"), i, encText)])
  /\ UNCHANGED <<variant, pc, ser, attempt, fader_vals, guiVars, rxBuf, wire,
                 discovered, cadence, obs, encText, sideVars>>

NextCodec == EncAppend \/ EncSend \/ EncSendDesktop

SpecCodec == InitOf("cli") /\ [][NextCodec]_vars

(***************************************************************************)
(* The channel directory: MainWindow.get_processes of cybermix.py with the *)
(* heuristic is_user_app, and MainWindow.get_processes of cybermix_gui.py. *)
(* A session is the name of its process, the empty string when it has no   *)
(* process or an empty name.                                               *)
(***************************************************************************)
\* str.lower on one code point: A-Z and the capital letters of Latin-1
Lower(cp) ==
  IF cp \in 65..90 \/ (cp \in 192..222 /\ cp # 215) THEN cp + 32 ELSE cp

\* s.lower()
LowerStr(s) == [i \in 1..Len(s) |-> Lower(s[i])]

\* s.endswith(suffix)
EndsWith(s, suffix) ==
  Len(s) >= Len(suffix) /\ SubSeq(s, Len(s) - Len(suffix) + 1, Len(s)) = suffix

\* a < b for two strings: code point by code point, a proper prefix first
StrLess(a, b) ==
  \E i \in 1..(Min(Len(a), Len(b)) + 1) :
    /\ \A j \in 1..(i - 1) : a[j] = b[j]
    /\ IF i > Len(a) THEN i <= Len(b)
       ELSE i <= Len(b) /\ a[i] < b[i]

\* exclude_keywords of is_user_app
exclude_keywords ==
  <<
    \* system
    <<115, 121, 115, 116, 101, 109>>,
    \* svchost
    <<115, 118, 99, 104, 111, 115, 116>>,
    \* wininit
    <<119, 105, 110, 105, 110, 105, 116>>,
    \* winlogon
    <<119, 105, 110, 108, 111, 103, 111, 110>>,
    \* lsass
    <<108, 115, 97, 115, 115>>,
    \* csrss
    <<99, 115, 114, 115, 115>>,
    \* smss
    <<115, 109, 115, 115>>,
    \* services
    <<115, 101, 114, 118, 105, 99, 101, 115>>,
    \* ntoskrnl
    <<110, 116, 111, 115, 107, 114, 110, 108>>,
    \* conhost
    <<99, 111, 110, 104, 111, 115, 116>>,
    \* dwm
    <<100, 119, 109>>,
    \* explorer
    <<101, 120, 112, 108, 111, 114, 101, 114>>,
    \* taskhostw
    <<116, 97, 115, 107, 104, 111, 115, 116, 119>>,
    \* rundll32
    <<114, 117, 110, 100, 108, 108, 51, 50>>,
    \* dllhost
    <<100, 108, 108, 104, 111, 115, 116>>,
    \* wmiprvse
    <<119, 109, 105, 112, 114, 118, 115, 101>>,
    \* sihost
    <<115, 105, 104, 111, 115, 116>>,
    \* wuauserv
    <<119, 117, 97, 117, 115, 101, 114, 118>>,
    \* spoolsv
    <<115, 112, 111, 111, 108, 115, 118>>,
    \* searchindexer
    <<115, 101, 97, 114, 99, 104, 105, 110, 100, 101, 120, 101, 114>>,
    \* vds
    <<118, 100, 115>>,
    \* nvda
    <<110, 118, 100, 97>>,
    \* nvidia
    <<110, 118, 105, 100, 105, 97>>,
    \* amd
    <<97, 109, 100>>,
    \* intel
    <<105, 110, 116, 101, 108>>,
    \* realtek
    <<114, 101, 97, 108, 116, 101, 107>>,
    \* qualcomm
    <<113, 117, 97, 108, 99, 111, 109, 109>>,
    \* razer
    <<114, 97, 122, 101, 114>>,
    \* corsair
    <<99, 111, 114, 115, 97, 105, 114>>,
    \* msi
    <<109, 115, 105>>,
    \* asus
    <<97, 115, 117, 115>>,
    \* lenovo
    <<108, 101, 110, 111, 118, 111>>,
    \* dell
    <<100, 101, 108, 108>>,
    \* hp
    <<104, 112>>,
    \* acer
    <<97, 99, 101, 114>>,
    \* microsoft edge
    <<109, 105, 99, 114, 111, 115, 111, 102, 116, 32, 101, 100, 103, 101>>,
    \* windowsapps
    <<119, 105, 110, 100, 111, 119, 115, 97, 112, 112, 115>>,
    \* host
    <<104, 111, 115, 116>>,
    \* service
    <<115, 101, 114, 118, 105, 99, 101>>,
    \* daemon
    <<100, 97, 101, 109, 111, 110>>,
    \* agent
    <<97, 103, 101, 110, 116>>,
    \* monitor
    <<109, 111, 110, 105, 116, 111, 114>>,
    \* update
    <<117, 112, 100, 97, 116, 101>>,
    \* defender
    <<100, 101, 102, 101, 110, 100, 101, 114>>,
    \* antimalware
    <<97, 110, 116, 105, 109, 97, 108, 119, 97, 114, 101>>,
    \* bits
    <<98, 105, 116, 115>>,
    \* trustedinstaller
    <<116, 114, 117, 115, 116, 101, 100, 105, 110, 115, 116, 97, 108, 108, 101, 114>>,
    \* ngscryptoapi
    <<110, 103, 115, 99, 114, 121, 112, 116, 111, 97, 112, 105>>
  >>

\* user_apps of is_user_app
user_apps ==
  <<
    \* chrome
    <<99, 104, 114, 111, 109, 101>>,
    \* firefox
    <<102, 105, 114, 101, 102, 111, 120>>,
    \* edge
    <<101, 100, 103, 101>>,
    \* safari
    <<115, 97, 102, 97, 114, 105>>,
    \* opera
    <<111, 112, 101, 114, 97>>,
    \* brave
    <<98, 114, 97, 118, 101>>,
    \* discord
    <<100, 105, 115, 99, 111, 114, 100>>,
    \* slack
    <<115, 108, 97, 99, 107>>,
    \* teams
    <<116, 101, 97, 109, 115>>,
    \* zoom
    <<122, 111, 111, 109>>,
    \* skype
    <<115, 107, 121, 112, 101>>,
    \* telegram
    <<116, 101, 108, 101, 103, 114, 97, 109>>,
    \* spotify
    <<115, 112, 111, 116, 105, 102, 121>>,
    \* youtube
    <<121, 111, 117, 116, 117, 98, 101>>,
    \* vlc
    <<118, 108, 99>>,
    \* obs
    <<111, 98, 115>>,
    \* audacity
    <<97, 117, 100, 97, 99, 105, 116, 121>>,
    \* steam
    <<115, 116, 101, 97, 109>>,
    \* epic
    <<101, 112, 105, 99>>,
    \* uplay
    <<117, 112, 108, 97, 121>>,
    \* battlenet
    <<98, 97, 116, 116, 108, 101, 110, 101, 116>>,
    \* blender
    <<98, 108, 101, 110, 100, 101, 114>>,
    \* adobe
    <<97, 100, 111, 98, 101>>,
    \* gimp
    <<103, 105, 109, 112>>,
    \* logic
    <<108, 111, 103, 105, 99>>,
    \* ableton
    <<97, 98, 108, 101, 116, 111, 110>>,
    \* cubase
    <<99, 117, 98, 97, 115, 101>>,
    \* reaper
    <<114, 101, 97, 112, 101, 114>>,
    \* fl studio
    <<102, 108, 32, 115, 116, 117, 100, 105, 111>>,
    \* finale
    <<102, 105, 110, 97, 108, 101>>,
    \* notion
    <<110, 111, 116, 105, 111, 110>>,
    \* slack
    <<115, 108, 97, 99, 107>>,
    \* messenger
    <<109, 101, 115, 115, 101, 110, 103, 101, 114>>,
    \* whatsapp
    <<119, 104, 97, 116, 115, 97, 112, 112>>,
    \* handbrake
    <<104, 97, 110, 100, 98, 114, 97, 107, 101>>,
    \* ffmpeg
    <<102, 102, 109, 112, 101, 103>>,
    \* potplayer
    <<112, 111, 116, 112, 108, 97, 121, 101, 114>>,
    \* winamp
    <<119, 105, 110, 97, 109, 112>>,
    \* foobar
    <<102, 111, 111, 98, 97, 114>>,
    \* mediamonkey
    <<109, 101, 100, 105, 97, 109, 111, 110, 107, 101, 121>>,
    \* musicbee
    <<109, 117, 115, 105, 99, 98, 101, 101>>,
    \* itunes
    <<105, 116, 117, 110, 101, 115>>,
    \* groove
    <<103, 114, 111, 111, 118, 101>>,
    \* amazon music
    <<97, 109, 97, 122, 111, 110, 32, 109, 117, 115, 105, 99>>,
    \* twitch
    <<116, 119, 105, 116, 99, 104>>,
    \* obs
    <<111, 98, 115>>,
    \* xsplit
    <<120, 115, 112, 108, 105, 116>>,
    \* streamlabs
    <<115, 116, 114, 101, 97, 109, 108, 97, 98, 115>>,
    \* dexpot
    <<100, 101, 120, 112, 111, 116>>,
    \* rainmeter
    <<114, 97, 105, 110, 109, 101, 116, 101, 114>>
  >>

\* '.exe' and '.EXE'
DotExe == <<46, 101, 120, 101>>
DotEXE == <<46, 69, 88, 69>>

\* is_user_app: "False", "True" or "None"
is_user_app(proc_name) ==
  LET lower_name == LowerStr(proc_name)
  IN  IF \E n \in DOMAIN exclude_keywords : Contains(lower_name, exclude_keywords[n])
        THEN "False"
      ELSE IF EndsWith(lower_name, DotExe) \/ EndsWith(lower_name, DotEXE)
        THEN IF \E n \in DOMAIN user_apps : Contains(lower_name, user_apps[n])
               THEN "True" ELSE "None"
      ELSE "False"

\* the test a name passes to be collected: a session of cybermix.py when
\* is_user_app is not False, a process of cybermix.py when it is True, every
\* name in cybermix_gui.py
Admitted(pname, mode) ==
  CASE mode = "session" -> is_user_app(pname) # "False"
    [] mode = "process" -> is_user_app(pname) = "True"
    [] OTHER -> TRUE

\* the loops `if pname and pname.lower() not in seen: ... append; seen.add`:
\* the names collected from list, in order, and the set seen afterwards
RECURSIVE Collect(_, _, _, _)
Collect(list, acc, seen, mode) ==
  IF list = <<>> THEN [names |-> acc, seen |-> seen]
  ELSE LET pname == Head(list)
       IN  IF pname # <<>> /\ LowerStr(pname) \notin seen /\ Admitted(pname, mode)
             THEN Collect(Tail(list), Append(acc, pname),
                          seen \cup {LowerStr(pname)}, mode)
             ELSE Collect(Tail(list), acc, seen, mode)

\* list with x inserted after the last element whose key is not greater
RECURSIVE InsertByLower(_, _)
InsertByLower(list, x) ==
  IF list = <<>> THEN <<x>>
  ELSE IF StrLess(LowerStr(x), LowerStr(Head(list)))
    THEN <<x>> \o list
    ELSE <<Head(list)>> \o InsertByLower(Tail(list), x)

\* sorted(list) without a key: by code points, capitals before small letters
RECURSIVE sorted_plain(_)
sorted_plain(list) ==
  IF list = <<>> THEN <<>>
  ELSE LET least == CHOOSE i \in 1..Len(list) :
                      \A j \in 1..Len(list) :
                        ~StrLess(list[j], list[i]) /\ (list[j] = list[i] => i <= j)
       IN  <<list[least]>> \o
             sorted_plain(SubSeq(list, 1, least - 1) \o SubSeq(list, least + 1, Len(list)))

\* sorted(list, key=str.lower), a stable sort
RECURSIVE sorted_lower(_)
sorted_lower(list) ==
  IF list = <<>> THEN <<>>
  ELSE InsertByLower(sorted_lower(SubSeq(list, 1, Len(list) - 1)), list[Len(list)])

\* get_processes with the two groups sorted without key=str.lower
get_processes_plain_sort(sessions, procs) ==
  LET audio == IF sessions = None THEN [names |-> <<>>, seen |-> {}]
               ELSE Collect(sessions[1], <<>>, {}, "session")
      unknown == Collect(procs, <<>>, audio.seen, "process")
  IN  [raised |-> FALSE,
       list |-> <<SystemMasterVolume>> \o sorted_plain(audio.names)
                  \o sorted_plain(unknown.names)]

\* MainWindow.get_processes of cybermix.py; sessions is None when
\* AudioUtilities.GetAllSessions() raises, which the try/except swallows
get_processes(sessions, procs) ==
  LET audio == IF sessions = None THEN [names |-> <<>>, seen |-> {}]
               ELSE Collect(sessions[1], <<>>, {}, "session")
      unknown == Collect(procs, <<>>, audio.seen, "process")
  IN  [raised |-> FALSE,
       list |-> <<SystemMasterVolume>> \o sorted_lower(audio.names)
                  \o sorted_lower(unknown.names)]

\* MainWindow.get_processes of cybermix_gui.py: no heuristic, no try/except
gui_get_processes(sessions, procs) ==
  IF sessions = None THEN [raised |-> TRUE, list |-> <<>>]
  ELSE
    LET audio == Collect(sessions[1], <<>>, {}, "any")
        names == Collect(procs, <<SystemMasterVolume>>, audio.seen, "any").names
        InAudio(n) == \E i \in DOMAIN audio.names : audio.names[i] = n
        Other(n) == ~InAudio(n) /\ n # SystemMasterVolume
    IN  [raised |-> FALSE,
         list |-> <<SystemMasterVolume>> \o sorted_lower(audio.names)
                    \o sorted_lower(SelectSeq(names, Other))]

\* the names a session or a running process may have: a known application
\* with a capital, one in two spellings, a system process, an executable the
\* heuristic leaves open, the master sentinel
NameZoom == <<90, 111, 111, 109, 46, 101, 120, 101>>
NameChrome == <<99, 104, 114, 111, 109, 101, 46, 101, 120, 101>>
NameChromeCap == <<67, 104, 114, 111, 109, 101, 46, 101, 120, 101>>
NameSvchost == <<115, 118, 99, 104, 111, 115, 116, 46, 101, 120, 101>>
NameFoo == <<102, 111, 111, 46, 101, 120, 101>>
DirNames ==
  {NameZoom, NameChrome, NameChromeCap, NameSvchost, NameFoo, SystemMasterVolume}

DirAddSession ==
  /\ Len(dirIn.sessions) + Len(dirIn.procs) < MaxNames
  /\ \E n \in DirNames : dirIn' = [dirIn EXCEPT !.sessions = Append(@, n)]
  /\ dirOut' = None
  /\ UNCHANGED <<variant, pc, ser, attempt, fader_vals, guiVars, rxBuf, wire,
                 discovered, cadence, obs, encVars, tableVars, stopVars, volVars, sent>>

DirAddProcess ==
  /\ Len(dirIn.sessions) + Len(dirIn.procs) < MaxNames
  /\ \E n \in DirNames : dirIn' = [dirIn EXCEPT !.procs = Append(@, n)]
  /\ dirOut' = None
  /\ UNCHANGED <<variant, pc, ser, attempt, fader_vals, guiVars, rxBuf, wire,
                 discovered, cadence, obs, encVars, tableVars, stopVars, volVars, sent>>

\* get_processes of cybermix.py on the sessions and the processes of dirIn
MainWindow_get_processes ==
  /\ \E enumOk \in BOOLEAN :
       dirOut' = Some([program |-> "gui", enumOk |-> enumOk,
                       out |-> get_processes(IF enumOk THEN Some(dirIn.sessions)
                                             ELSE None, dirIn.procs)])
  /\ UNCHANGED <<variant, pc, ser, attempt, fader_vals, guiVars, rxBuf, wire,
                 discovered, cadence, obs, encVars, tableVars, stopVars, dirIn, volVars,
                 sent>>

\* get_processes of cybermix_gui.py on the sessions and the processes of dirIn
gui_MainWindow_get_processes ==
  /\ \E enumOk \in BOOLEAN :
       dirOut' = Some([program |-> "gui2", enumOk |-> enumOk,
                       out |-> gui_get_processes(IF enumOk THEN Some(dirIn.sessions)
                                                 ELSE None, dirIn.procs)])
  /\ UNCHANGED <<variant, pc, ser, attempt, fader_vals, guiVars, rxBuf, wire,
                 discovered, cadence, obs, encVars, tableVars, stopVars, dirIn, volVars,
                 sent>>

NextDirectory ==
  \/ DirAddSession
  \/ DirAddProcess
  \/ MainWindow_get_processes
  \/ gui_MainWindow_get_processes

SpecDirectory == InitOf("gui") /\ [][NextDirectory]_vars

(***************************************************************************)
(* The assignment table of the two GUI programs: construction ends with    *)
(* load_settings, then the user drops names on slots, turns pages and      *)
(* drags sliders.  The volume backend works here; writing the settings     *)
(* file may fail.                                                          *)
(***************************************************************************)
NameDiscord == <<100, 105, 115, 99, 111, 114, 100, 46, 101, 120, 101>>
NameSpotify == <<83, 112, 111, 116, 105, 102, 121, 46, 101, 120, 101>>
NameSteam == <<115, 116, 101, 97, 109, 46, 101, 120, 101>>
NameVlc == <<118, 108, 99, 46, 101, 120, 101>>

\* the running processes at construction: none that get_processes lists, or
\* six applications, which with the sentinel fill two pages
TableProcs ==
  { <<>>, <<NameZoom, NameVlc, NameSteam, NameSpotify, NameDiscord, NameChrome>> }

\* the names the user drags from the process list
DropNames == {NameChrome, NameZoom}

\* ['System Master Volume'] + [None] * (FADER_COUNT - 1)
DefaultAssignments == <<Some(SystemMasterVolume), None, None, None, None>>

\* the content of the settings file at start: a file written by an earlier
\* run; a file that is empty, or cut short, so that json.load raises; a JSON
\* list, on which data.get raises; an object without 'fader_values'; an
\* object whose 'fader_values' is [100, "x"], on which setValue raises
SettingsFiles ==
  { None,
    Some([fader_assignments |-> <<Some(SystemMasterVolume), Some(NameChrome), None, None, None>>,
          fader_values |-> <<100, 64, 64, 64, 64>>, page |-> 1]),
    Some([text |-> ""]),
    Some([text |-> "{\"fader_assignments\": [\"Sys"]),
    Some([list |-> <<1, 2, 3>>]),
    Some([fader_assignments |-> <<Some(NameChrome), None, None, None, None>>, page |-> 1]),
    Some([fader_assignments |-> <<Some(NameChrome), None, None, None, None>>,
          fader_values |-> <<100>>, not_int_after |-> TRUE, page |-> 1]) }

\* the table as save_settings reads it
Snapshot ==
  [fader_assignments |-> fader_assignments, fader_values |-> fader_sliders,
   page |-> page]

\* list[idx] = x storing x one position further on, the last one wrapping
list_setitem_shifted(list, idx, x) ==
  IF idx \in (-Len(list))..(Len(list) - 1)
    THEN [raised |-> FALSE,
          list |-> [list EXCEPT ![((idx + Len(list) + 1) % Len(list)) + 1] = x]]
    ELSE [raised |-> TRUE, list |-> list]

\* list[idx] = x: a negative index counts from the end, an index outside
\* -len..len-1 raises IndexError
list_setitem(list, idx, x) ==
  IF idx \in 0..(Len(list) - 1)
    THEN [raised |-> FALSE, list |-> [list EXCEPT ![idx + 1] = x]]
  ELSE IF idx \in (-Len(list))..(-1)
    THEN [raised |-> FALSE, list |-> [list EXCEPT ![Len(list) + idx + 1] = x]]
  ELSE [raised |-> TRUE, list |-> list]

\* self.processes[self.page * 5:(self.page + 1) * 5]
PageSlice(procs, pg) ==
  IF pg * 5 >= Len(procs) THEN <<>>
  ELSE SubSeq(procs, pg * 5 + 1, Min((pg + 1) * 5, Len(procs)))

\* the assignments refresh_page leaves for the page slice procs
refresh_page(table, procs) ==
  [j \in 1..FADER_COUNT |->
     IF j <= Len(procs)
       THEN IF table[j] # None /\ \E n \in DOMAIN procs : procs[n] = table[j][1]
              THEN table[j]
            ELSE IF j = 1 THEN Some(procs[1])
            ELSE None
       ELSE None]

\* the state after MainWindow.__init__ up to the call of load_settings
InitTable ==
  /\ variant \in {"gui", "gui2"}
  /\ pc = "init"
  /\ ser = None
  /\ attempt = 0
  /\ fader_vals = None
  /\ fader_sliders = <<64, 64, 64, 64, 64>>
  /\ fader_assignments = DefaultAssignments
  /\ oled_previews = [i \in 1..FADER_COUNT |-> OledPreviewText]
  /\ led_bar = -1
  /\ page = 0
  /\ settings_file \in SettingsFiles
  /\ sigQueue = <<>>
  /\ rxBuf = <<>>
  /\ wire = <<>>
  /\ discovered = FALSE
  /\ cadence = [since |-> 0, first |-> 0, last |-> 0]
  /\ obs = NoObs
  /\ encText = <<>>
  /\ encOut = None
  /\ \E procs \in TableProcs :
       processes = IF variant = "gui" THEN get_processes(Some(<<>>), procs).list
                   ELSE gui_get_processes(Some(<<>>), procs).list
  /\ tobs = NoTobs
  /\ running = TRUE
  /\ worker = "while"
  /\ ui = "idle"
  /\ closed = FALSE
  /\ sobs = NoSobs
  /\ dirIn = [sessions |-> <<>>, procs |-> <<>>]
  /\ dirOut = None
  /\ volIn = [sessions |-> <<>>, ch |-> <<>>]
  /\ volOut = None
  /\ sent = <<>>

\* what an operation on the table leaves in tobs: the operation, the slot
\* index and the channel it was given, whether it raised before it changed
\* anything, whether the write of the settings file failed, the table before
\* it and (for load_settings) the file it read
TableObs(op, slot, ch, raised, saveFailed, file) ==
  [op |-> op, n |-> tobs.n + 1, slot |-> slot, ch |-> ch, raised |-> raised,
   saveFailed |-> saveFailed, before |-> Snapshot, file |-> file]

\* the variables no operation on the table touches
tableFrame ==
  <<variant, ser, attempt, fader_vals, sigQueue, rxBuf, wire, discovered,
    cadence, obs, encVars, processes, stopVars, dirVars, volVars, sent>>

\* MainWindow.load_settings, the last call of MainWindow.__init__ (cybermix.py
\* lines 550-561, cybermix_gui.py lines 291-305).  Each setValue that changes
\* a slider runs set_app_volume for it: preview text, save_settings, LED bar
MainWindow_load_settings ==
  /\ pc = "init"
  /\ pc' = "run"
  /\ tobs' = [TableObs("restore", 0, None, FALSE, FALSE, settings_file) EXCEPT !.n = 0]
  /\ IF settings_file = None
         \/ "text" \in DOMAIN settings_file[1]
         \/ "list" \in DOMAIN settings_file[1]
       THEN UNCHANGED <<fader_assignments, page, fader_sliders, oled_previews,
                        led_bar, settings_file>>
       ELSE
         \E data \in {settings_file[1]} :
         \E values \in {IF "fader_values" \in DOMAIN data THEN data.fader_values
                        ELSE <<>>} :
         \E changed \in {{j \in 1..Min(Len(values), FADER_COUNT) :
                            SliderBound(values[j]) # fader_sliders[j]}} :
           /\ fader_assignments' =
                IF "fader_assignments" \in DOMAIN data THEN data.fader_assignments
                ELSE fader_assignments
           /\ page' = IF "page" \in DOMAIN data THEN data.page ELSE page
           /\ fader_sliders' = [j \in 1..FADER_COUNT |->
                                  IF j \in changed THEN SliderBound(values[j])
                                  ELSE fader_sliders[j]]
           /\ oled_previews' =
                [j \in 1..FADER_COUNT |->
                   IF j \in changed
                     THEN oled_text(Label(fader_assignments'[j]), fader_sliders'[j])
                     ELSE oled_previews[j]]
           /\ led_bar' = IF changed # {} THEN IntPercent(fader_sliders'[1])
                         ELSE led_bar
           /\ settings_file' =
                IF changed = {} THEN settings_file
                ELSE LET last == CHOOSE j \in changed : \A i \in changed : i <= j
                     IN  save_settings(fader_assignments',
                                       [j \in 1..FADER_COUNT |->
                                          IF j <= last THEN fader_sliders'[j]
                                          ELSE fader_sliders[j]],
                                       page')
  /\ UNCHANGED tableFrame

\* what save_settings leaves in the settings file when the write works
\* (saveOk) or fails
Saved(saveOk, assignments, values, pg) ==
  IF saveOk THEN save_settings(assignments, values, pg) ELSE settings_file

\* where a failed write of the settings file leaves the program: cybermix.py
\* swallows it; in cybermix_gui.py it leaves the handler as an exception
AfterSave(saveOk) ==
  IF saveOk \/ variant = "gui" THEN {pc} ELSE {pc, "aborted"}

\* DraggableLabel.dropEvent on the label of slot idx with the text proc_name:
\* MainWindow.process_dropped (cybermix.py lines 589-593, cybermix_gui.py
\* lines 331-335)
MainWindow_process_dropped ==
  /\ pc = "run" /\ tobs.n < MaxOps
  /\ \E idx \in Slots, proc_name \in DropNames, saveOk \in BOOLEAN :
       /\ fader_assignments' = list_setitem(fader_assignments, idx, Some(proc_name)).list
       /\ settings_file' = Saved(saveOk, fader_assignments', fader_sliders, page)
       /\ pc' \in AfterSave(saveOk)
       /\ tobs' = TableObs("assign", idx, Some(proc_name), FALSE, ~saveOk, None)
  /\ UNCHANGED <<fader_sliders, oled_previews, led_bar, page>>
  /\ UNCHANGED tableFrame

\* the slot indexes and the list indexes handed to assign_process
AssignSlots == {-1, 0, 4, 5}
AssignCombos == {0, 5}

\* MainWindow.assign_process of cybermix_gui.py (lines 214-219), called with
\* fader_idx and combo_idx; an exception goes to its caller
gui_MainWindow_assign_process ==
  /\ variant = "gui2" /\ pc = "run" /\ tobs.n < MaxOps
  /\ \E fader_idx \in AssignSlots, combo_idx \in AssignCombos, saveOk \in BOOLEAN :
       \E procs \in {PageSlice(processes, page)} :
         IF combo_idx < Len(procs)
           THEN \E r \in {list_setitem(fader_assignments, fader_idx,
                                       Some(procs[combo_idx + 1]))} :
                  /\ fader_assignments' = r.list
                  /\ settings_file' = IF r.raised THEN settings_file
                                      ELSE Saved(saveOk, r.list, fader_sliders, page)
                  /\ tobs' = TableObs("assign", fader_idx, Some(procs[combo_idx + 1]),
                                      r.raised, ~r.raised /\ ~saveOk, None)
           ELSE /\ UNCHANGED <<fader_assignments, settings_file>>
                /\ tobs' = TableObs("assign", fader_idx, None, FALSE, FALSE, None)
  /\ UNCHANGED <<pc, fader_sliders, oled_previews, led_bar, page>>
  /\ UNCHANGED tableFrame

\* MainWindow.prev_page with refresh_page (cybermix.py lines 508-511, 519-536;
\* the same code in cybermix_gui.py lines 256-259, 265-282)
MainWindow_prev_page ==
  /\ variant \in {"gui", "gui2"} /\ pc = "run" /\ tobs.n < MaxOps
  /\ IF page > 0
       THEN /\ page' = page - 1
            /\ fader_assignments' =
                 refresh_page(fader_assignments, PageSlice(processes, page'))
       ELSE UNCHANGED <<page, fader_assignments>>
  /\ tobs' = TableObs("prev_page", 0, None, FALSE, FALSE, None)
  /\ UNCHANGED <<pc, fader_sliders, oled_previews, led_bar, settings_file>>
  /\ UNCHANGED tableFrame

\* next_page without the test of max_page
MainWindow_next_page_unbounded ==
  /\ variant \in {"gui", "gui2"} /\ pc = "run" /\ tobs.n < MaxOps
  /\ page' = page + 1
  /\ fader_assignments' =
       refresh_page(fader_assignments, PageSlice(processes, page'))
  /\ tobs' = TableObs("next_page", 0, None, FALSE, FALSE, None)
  /\ UNCHANGED <<pc, fader_sliders, oled_previews, led_bar, settings_file>>
  /\ UNCHANGED tableFrame

\* MainWindow.next_page with refresh_page (cybermix.py lines 513-536; the same
\* code in cybermix_gui.py lines 260-282)
MainWindow_next_page ==
  /\ variant \in {"gui", "gui2"} /\ pc = "run" /\ tobs.n < MaxOps
  /\ \E max_page \in {Max(0, (Len(processes) - 1) \div 5)} :
       IF page < max_page
         THEN /\ page' = page + 1
              /\ fader_assignments' =
                   refresh_page(fader_assignments, PageSlice(processes, page'))
         ELSE UNCHANGED <<page, fader_assignments>>
  /\ tobs' = TableObs("next_page", 0, None, FALSE, FALSE, None)
  /\ UNCHANGED <<pc, fader_sliders, oled_previews, led_bar, settings_file>>
  /\ UNCHANGED tableFrame

\* the slots whose slider the user drags and the values dragged to
DragSlots == {0, 3}
DragValues == {100}

\* the user drags the slider of slot idx to val: valueChanged runs
\* MainWindow.set_app_volume (cybermix.py lines 455-461, cybermix_gui.py
\* lines 220-238)
MainWindow_set_app_volume ==
  /\ variant \in {"gui", "gui2"} /\ pc = "run" /\ tobs.n < MaxOps
  /\ \E idx \in DragSlots, val \in DragValues, saveOk \in BOOLEAN :
       /\ val # fader_sliders[idx + 1]
       /\ fader_sliders' = [fader_sliders EXCEPT ![idx + 1] = val]
       /\ oled_previews' =
            [oled_previews EXCEPT
               ![idx + 1] = oled_text(Label(fader_assignments[idx + 1]), val)]
       /\ settings_file' = Saved(saveOk, fader_assignments, fader_sliders', page)
       /\ led_bar' = IF saveOk \/ variant = "gui" THEN IntPercent(fader_sliders'[1])
                     ELSE led_bar
       /\ pc' \in AfterSave(saveOk)
       /\ tobs' = TableObs("set_value", idx, None, FALSE, ~saveOk, None)
  /\ UNCHANGED <<fader_assignments, page>>
  /\ UNCHANGED tableFrame

NextTable ==
  \/ MainWindow_load_settings
  \/ MainWindow_process_dropped
  \/ gui_MainWindow_assign_process
  \/ MainWindow_prev_page
  \/ MainWindow_next_page
  \/ MainWindow_set_app_volume

SpecTable == InitTable /\ [][NextTable]_vars

\* construction with no settings file or one that cannot be parsed, so that
\* load_settings leaves self.page = 0 (line 271)
InitPaging ==
  /\ InitTable
  /\ settings_file # None => "page" \notin DOMAIN settings_file[1]

SpecPaging == InitPaging /\ [][NextTable]_vars

(***************************************************************************)
(* Stopping.  In the GUI programs SerialWorker.run is on its own thread    *)
(* and MainWindow.exit_app / closeEvent call SerialWorker.stop on the GUI  *)
(* thread, with no lock: the two threads are interleaved line by line, and *)
(* ser.read and ser.close each take time.  Here the port works until it is *)
(* closed; whether six bytes are waiting is left open.  In the headless    *)
(* program Ctrl-C raises KeyboardInterrupt in run and the handler calls    *)
(* DesktopController.stop on the same thread.                              *)
(***************************************************************************)
\* the variables the steps of the two threads leave alone
stopFrame ==
  <<variant, attempt, fader_vals, guiVars, rxBuf, wire, discovered, cadence,
    obs, encVars, tableVars, dirVars, volVars, sent>>

\* `while self.running:` (cybermix.py line 193, cybermix_gui.py line 51)
SerialWorker_run_while ==
  /\ variant \in {"gui", "gui2"} /\ pc # "aborted" /\ worker = "while"
  /\ worker' = IF running THEN "if_ser" ELSE "done"
  /\ UNCHANGED <<pc, ser, running, ui, closed, sobs>>
  /\ UNCHANGED stopFrame

\* `if self.ser is None:` (line 194)
SerialWorker_run_if_ser ==
  /\ variant \in {"gui", "gui2"} /\ pc # "aborted" /\ worker = "if_ser"
  /\ worker' = IF ser = None THEN "connect" ELSE "in_waiting"
  /\ UNCHANGED <<pc, ser, running, ui, closed, sobs>>
  /\ UNCHANGED stopFrame

\* find_serial_port and serial.Serial (lines 195-205), then the next iteration
SerialWorker_run_connect ==
  /\ variant \in {"gui", "gui2"} /\ pc # "aborted" /\ worker = "connect"
  /\ \E ports \in PortLists, openOk \in BOOLEAN :
       \E port \in {find_serial_port(ports)} :
         ser' = IF port # None /\ openOk THEN port ELSE None
  /\ closed' = FALSE
  /\ worker' = "while"
  /\ UNCHANGED <<pc, running, ui, sobs>>
  /\ UNCHANGED stopFrame

\* `if self.ser.in_waiting >= 6:` (line 207); in_waiting raises on a port
\* that has been closed
SerialWorker_run_in_waiting ==
  /\ variant \in {"gui", "gui2"} /\ pc # "aborted" /\ worker = "in_waiting"
  /\ IF closed
       THEN /\ worker' = "raised"
            /\ pc' \in SlotExceptionOutcomes
            /\ sobs' = [sobs EXCEPT !.afterClose = TRUE]
       ELSE /\ \E enough \in BOOLEAN : worker' = IF enough THEN "read" ELSE "sleep"
            /\ UNCHANGED <<pc, sobs>>
  /\ UNCHANGED <<ser, running, ui, closed>>
  /\ UNCHANGED stopFrame

\* `data = self.ser.read(6)` is entered (line 208); read raises on a port
\* that has been closed
SerialWorker_run_read_begin ==
  /\ variant \in {"gui", "gui2"} /\ pc # "aborted" /\ worker = "read"
  /\ IF closed
       THEN /\ worker' = "raised"
            /\ pc' \in SlotExceptionOutcomes
            /\ sobs' = [sobs EXCEPT !.afterClose = TRUE]
       ELSE /\ worker' = "reading"
            /\ sobs' = [sobs EXCEPT !.overlap = @ \/ ui = "closing"]
            /\ UNCHANGED pc
  /\ UNCHANGED <<ser, running, ui, closed>>
  /\ UNCHANGED stopFrame

\* ser.read(6) returns and the frame is handled (lines 208-211); a read that
\* the close cut short raises or returns what it has
SerialWorker_run_read_end ==
  /\ variant \in {"gui", "gui2"} /\ pc # "aborted" /\ worker = "reading"
  /\ IF closed
       THEN \E raises \in BOOLEAN :
              /\ worker' = IF raises THEN "raised" ELSE "sleep"
              /\ IF raises THEN pc' \in SlotExceptionOutcomes ELSE pc' = pc
       ELSE worker' = "sleep" /\ pc' = pc
  /\ UNCHANGED <<ser, running, ui, closed, sobs>>
  /\ UNCHANGED stopFrame

\* time.sleep(0.05) (line 212)
SerialWorker_run_sleep ==
  /\ variant \in {"gui", "gui2"} /\ pc # "aborted" /\ worker = "sleep"
  /\ worker' = "while"
  /\ UNCHANGED <<pc, ser, running, ui, closed, sobs>>
  /\ UNCHANGED stopFrame

\* MainWindow.exit_app (or closeEvent without a tray icon) calls
\* SerialWorker.stop: `self.running = False` (line 215)
SerialWorker_stop_running ==
  /\ variant \in {"gui", "gui2"} /\ pc # "aborted" /\ ui = "idle"
  /\ running' = FALSE
  /\ ui' = "stop_if_ser"
  /\ UNCHANGED <<pc, ser, worker, closed, sobs>>
  /\ UNCHANGED stopFrame

\* `if self.ser:` and the entry of self.ser.close() (lines 216-217)
SerialWorker_stop_if_ser ==
  /\ variant \in {"gui", "gui2"} /\ pc # "aborted" /\ ui = "stop_if_ser"
  /\ IF ser # None
       THEN /\ ui' = "closing"
            /\ sobs' = [sobs EXCEPT !.overlap = @ \/ worker = "reading"]
       ELSE /\ ui' = "wait"
            /\ UNCHANGED sobs
  /\ UNCHANGED <<pc, ser, running, worker, closed>>
  /\ UNCHANGED stopFrame

\* self.ser.close() returns (line 217)
SerialWorker_stop_close ==
  /\ variant \in {"gui", "gui2"} /\ pc # "aborted" /\ ui = "closing"
  /\ closed' = TRUE
  /\ ui' = "wait"
  /\ UNCHANGED <<pc, ser, running, worker, sobs>>
  /\ UNCHANGED stopFrame

\* self.thread.quit(); self.thread.wait() (lines 504-505): returns once run
\* has ended
MainWindow_thread_wait ==
  /\ variant \in {"gui", "gui2"} /\ pc # "aborted" /\ ui = "wait"
  /\ worker \in {"done", "raised"}
  /\ ui' = "exited"
  /\ UNCHANGED <<pc, ser, running, worker, closed, sobs>>
  /\ UNCHANGED stopFrame

\* Ctrl-C: KeyboardInterrupt leaves DesktopController.run (lines 629-631)
KeyboardInterrupt ==
  /\ variant = "cli" /\ pc = "run"
  /\ pc' = "interrupted"
  /\ UNCHANGED <<ser, stopVars>>
  /\ UNCHANGED stopFrame

\* DesktopController.stop (lines 162-166), called by the handler
DesktopController_stop ==
  /\ variant = "cli" /\ pc = "interrupted"
  /\ running' = FALSE
  /\ closed' = (ser # None)
  /\ pc' = "stopped"
  /\ UNCHANGED <<ser, worker, ui, sobs>>
  /\ UNCHANGED stopFrame

InitStop == \E v \in {"cli", "gui", "gui2"} : InitOf(v)

NextStop ==
  \/ SerialWorker_run_while
  \/ SerialWorker_run_if_ser
  \/ SerialWorker_run_connect
  \/ SerialWorker_run_in_waiting
  \/ SerialWorker_run_read_begin
  \/ SerialWorker_run_read_end
  \/ SerialWorker_run_sleep
  \/ SerialWorker_stop_running
  \/ SerialWorker_stop_if_ser
  \/ SerialWorker_stop_close
  \/ MainWindow_thread_wait
  \/ DesktopController_run_reconnect
  \/ DesktopController_run_poll
  \/ KeyboardInterrupt
  \/ DesktopController_stop

SpecStop == InitStop /\ [][NextStop]_vars

(***************************************************************************)
(* The per-application volume call.  An audio session is the name of its   *)
(* process (the empty string when session.Process is None) and whether     *)
(* QueryInterface and SetMasterVolume work on it.  A call yields whether   *)
(* an exception left it and the sessions whose volume it set, in order.    *)
(***************************************************************************)
\* session.Process and app_name.lower() in session.Process.name().lower()
SessionMatches(session, app_name) ==
  session.name # <<>> /\ Contains(LowerStr(session.name), LowerStr(app_name))

\* the session loop of set_app_volume (cybermix.py lines 79-87) from session
\* i on: the first matching session whose volume can be set ends the loop; a
\* failure is swallowed and the loop goes on
RECURSIVE set_app_volume_loop(_, _, _)
set_app_volume_loop(sessions, app_name, i) ==
  IF i > Len(sessions) THEN <<>>
  ELSE IF SessionMatches(sessions[i], app_name) /\ sessions[i].setOk THEN <<i>>
  ELSE set_app_volume_loop(sessions, app_name, i + 1)

\* set_app_volume of cybermix.py with a backend present: the master channel
\* goes to the endpoint volume and touches no session
set_app_volume(sessions, enumOk, app_name) ==
  IF app_name = SystemMasterVolume THEN [raised |-> FALSE, changed |-> <<>>]
  ELSE IF ~enumOk THEN [raised |-> TRUE, changed |-> <<>>]
  ELSE [raised |-> FALSE, changed |-> set_app_volume_loop(sessions, app_name, 1)]

\* the session loop of set_app_volume of cybermix_desktop.py (lines 34-39):
\* the first matching session ends the loop, with an exception when its
\* volume cannot be set
RECURSIVE desktop_set_app_volume_loop(_, _, _)
desktop_set_app_volume_loop(sessions, app_name, i) ==
  IF i > Len(sessions) THEN [raised |-> FALSE, changed |-> <<>>]
  ELSE IF SessionMatches(sessions[i], app_name)
    THEN IF sessions[i].setOk THEN [raised |-> FALSE, changed |-> <<i>>]
         ELSE [raised |-> TRUE, changed |-> <<>>]
  ELSE desktop_set_app_volume_loop(sessions, app_name, i + 1)

\* set_app_volume of cybermix_desktop.py: no master branch, no try/except
desktop_set_app_volume(sessions, enumOk, app_name) ==
  IF ~enumOk THEN [raised |-> TRUE, changed |-> <<>>]
  ELSE desktop_set_app_volume_loop(sessions, app_name, 1)

\* the session loop of MainWindow.set_app_volume of cybermix_gui.py (lines
\* 231-235): neither return nor break, every matching session is set; an
\* exception ends it
RECURSIVE gui_set_app_volume_loop(_, _, _, _)
gui_set_app_volume_loop(sessions, proc, i, changed) ==
  IF i > Len(sessions) THEN [raised |-> FALSE, changed |-> changed]
  ELSE IF SessionMatches(sessions[i], proc)
    THEN IF sessions[i].setOk
           THEN gui_set_app_volume_loop(sessions, proc, i + 1, Append(changed, i))
           ELSE [raised |-> TRUE, changed |-> changed]
  ELSE gui_set_app_volume_loop(sessions, proc, i + 1, changed)

\* the backend part of MainWindow.set_app_volume of cybermix_gui.py (lines
\* 221-235) for a channel proc that is set
gui_set_app_volume(sessions, enumOk, proc) ==
  IF proc = SystemMasterVolume THEN [raised |-> FALSE, changed |-> <<>>]
  ELSE IF ~enumOk THEN [raised |-> TRUE, changed |-> <<>>]
  ELSE gui_set_app_volume_loop(sessions, proc, 1, <<>>)

\* "chrome", a channel that is a part of a process name
NameChromeStem == <<99, 104, 114, 111, 109, 101>>

\* the process names of the audio sessions; the empty one is a session
\* without a process
VolSessionNames == {NameChrome, NameChromeCap, NameZoom, <<>>}

\* the channels a slot may hold
VolChannels == {NameChrome, NameChromeStem, NameFoo, SystemMasterVolume}

\* the variables a volume run leaves alone
volFrame ==
  <<variant, pc, ser, attempt, fader_vals, guiVars, rxBuf, wire, discovered,
    cadence, obs, encVars, tableVars, stopVars, dirVars, sent>>

\* one more audio session is open
VolAddSession ==
  /\ Len(volIn.sessions) < MaxSessions
  /\ \E n \in VolSessionNames, ok \in BOOLEAN :
       volIn' = [volIn EXCEPT !.sessions = Append(@, [name |-> n, setOk |-> ok])]
  /\ volOut' = None
  /\ UNCHANGED volFrame

\* the channel of the slot whose volume is set
VolSetChannel ==
  /\ \E ch \in VolChannels : ch # volIn.ch /\ volIn' = [volIn EXCEPT !.ch = ch]
  /\ volOut' = None
  /\ UNCHANGED volFrame

\* set_app_volume of cybermix.py is called for the channel
Call_set_app_volume ==
  /\ volIn.ch # <<>>
  /\ \E enumOk \in BOOLEAN :
       volOut' = Some([program |-> "cli", enumOk |-> enumOk,
                       out |-> set_app_volume(volIn.sessions, enumOk, volIn.ch)])
  /\ UNCHANGED <<volIn, volFrame>>

\* set_app_volume of cybermix_desktop.py is called for the channel
Call_desktop_set_app_volume ==
  /\ volIn.ch # <<>>
  /\ \E enumOk \in BOOLEAN :
       volOut' = Some([program |-> "desktop", enumOk |-> enumOk,
                       out |-> desktop_set_app_volume(volIn.sessions, enumOk, volIn.ch)])
  /\ UNCHANGED <<volIn, volFrame>>

\* MainWindow.set_app_volume of cybermix_gui.py runs for a slot holding the
\* channel
Call_gui_set_app_volume ==
  /\ volIn.ch # <<>>
  /\ \E enumOk \in BOOLEAN :
       volOut' = Some([program |-> "gui2", enumOk |-> enumOk,
                       out |-> gui_set_app_volume(volIn.sessions, enumOk, volIn.ch)])
  /\ UNCHANGED <<volIn, volFrame>>

NextVolume ==
  \/ VolAddSession
  \/ VolSetChannel
  \/ Call_set_app_volume
  \/ Call_desktop_set_app_volume
  \/ Call_gui_set_app_volume

SpecVolume == InitOf("cli") /\ [][NextVolume]_vars

(***************************************************************************)
(* Framing.  The device sends nothing but whole fader reports, one after   *)
(* another, once the port is open; the bytes arrive one at a time between  *)
(* the ticks of the four programs.                                         *)
(***************************************************************************)
\* the payloads of the reports: five bytes equal to the tag byte, and the
\* ends of the range around a tag byte
FramePayloads == { <<70, 70, 70, 70, 70>>, <<127, 0, 64, 70, 1>> }

\* the device sends one more report, behind the bytes still on their way
FrameSend ==
  /\ pc = "run" /\ ser # None /\ Len(sent) < MaxFrames
  /\ \E p \in FramePayloads :
       /\ wire' = wire \o <<TagF>> \o p
       /\ sent' = Append(sent, p)
  /\ obs' = [NoObs EXCEPT !.kind = "env"]
  /\ UNCHANGED <<variant, pc, ser, attempt, fader_vals, guiVars, rxBuf,
                 discovered, cadence, encVars, tableVars, stopVars, dirVars,
                 volVars>>

NextFraming ==
  \/ FrameSend
  \/ Arrive
  \/ DesktopController_run_reconnect
  \/ DesktopController_run_poll
  \/ desktop_main_reconnect
  \/ desktop_main_poll
  \/ SerialWorker_run_reconnect
  \/ SerialWorker_run_poll
  \/ MainWindow_update_faders
  \/ gui_SerialWorker_run_reconnect
  \/ gui_SerialWorker_run_poll
  \/ gui_MainWindow_update_faders

SpecFraming == Init /\ [][NextFraming]_vars

(***************************************************************************)
(* Properties.                                                             *)
(***************************************************************************)
\* the values a program holds for the five slots
CurrentValues ==
  IF variant \in {"cli", "desktop"} THEN fader_vals ELSE fader_sliders

\* the calls of the volume backend the last step made for slot i
CallsOf(i) == {n \in DOMAIN obs.volCalls : obs.volCalls[n].slot = i}

\* C1: after a decoded FaderReport, set_volume is invoked exactly once, with
\* the slot's channel and value/127, for every slot that has a channel, and
\* not at all for a slot that has none.
C1_SetVolumePerAssignedSlot ==
  (obs.kind = "report" /\ obs.cause = "") =>
    \A i \in Slots :
      IF obs.table[i + 1] # None
        THEN /\ Cardinality(CallsOf(i)) = 1
             /\ \A n \in CallsOf(i) :
                  /\ obs.volCalls[n].ch = obs.table[i + 1][1]
                  /\ obs.volCalls[n].num = obs.vals[i + 1]
                  /\ obs.volCalls[n].den = 127
        ELSE CallsOf(i) = {}

\* C2: a decode attempt yields a report exactly when the buffer held at least
\* 6 bytes starting with 'F'; the report is the 5 bytes after the tag and 6
\* bytes are consumed; with fewer than 6 bytes there is no report and the
\* buffer is left as it was.
C2_DecodeContract ==
  obs.read # None =>
    LET rd == obs.read[1]
    IN  /\ (rd.result # None) <=> (Len(rd.before) >= 6 /\ rd.before[1] = 70)
        /\ rd.result # None =>
             /\ rd.result = SubSeq(rd.before, 2, 6)
             /\ rd.after = SubSeq(rd.before, 7, Len(rd.before))
        /\ Len(rd.before) < 6 => (rd.result = None /\ rd.after = rd.before)

\* a report was decoded from a buffer holding more than one frame's bytes
C2_Witness ==
  /\ obs.read # None
  /\ obs.read[1].result # None
  /\ Len(obs.read[1].before) > 6

\* C3: the encoded ScreenUpdate is 'S', the slot index, then the first 16
\* bytes of the text's UTF-8 encoding (all of them when there are at most
\* 16); it is never longer than 18 bytes.
C3_EncodeContract ==
  encOut # None =>
    LET utf == Utf8Encode(encText)
        w == encOut[1].written
    IN  /\ Len(w) = 1
        /\ Len(w[1]) <= 18
        /\ w[1][1] = 83
        /\ w[1][2] = encOut[1].idx
        /\ SubSeq(w[1], 3, Len(w[1])) =
             IF Len(utf) > 16 THEN SubSeq(utf, 1, 16) ELSE utf

\* a text of more than 16 UTF-8 bytes was encoded and the cut after the 16th
\* byte falls inside a multi-byte character
C3_Witness ==
  /\ encOut # None
  /\ Len(Utf8Encode(encText)) > 16
  /\ Utf8Encode(encText)[17] \in 128..191
  /\ Len(encOut[1].written[1]) = 18

\* C4: for every decoded FaderReport exactly five ScreenUpdate frames are
\* written, for the slots 0, 1, 2, 3, 4 in this order.
C4_FiveScreenUpdates ==
  (obs.kind = "report" /\ obs.cause = "") =>
    /\ Len(obs.serWrites) = FADER_COUNT
    /\ \A j \in 1..Len(obs.serWrites) :
         obs.serWrites[j][1] = 83 /\ obs.serWrites[j][2] = j - 1

\* C5: as long as discovery has never returned a port, there is no
\* connection, no volume backend call and no serial write.
C5_QuietWhileUndiscovered ==
  ~discovered =>
    (ser = None /\ obs.volCalls = <<>> /\ obs.serWrites = <<>>)

\* C6: after a read or write failure on the open connection the connection
\* is dropped and the tick loop is still running.
C6_TransportErrorDisconnects ==
  obs.cause \in {"read", "write"} => (ser = None /\ pc = "run")

\* C7: in the processing of a report in which a set_volume call failed, the
\* call is still made for every slot that has a channel and all five
\* ScreenUpdate frames are written.
C7_VolumeErrorIsolated ==
  (obs.kind = "report" /\ obs.volFailed # {}) =>
    /\ \A i \in Slots : obs.table[i + 1] # None => CallsOf(i) # {}
    /\ Len(obs.serWrites) = FADER_COUNT

\* C8: a connected tick that decodes no report calls no set_volume, writes
\* no frame and leaves the slots' values as they were.
C8_NoFrameIsNoOp ==
  obs.kind = "noframe" =>
    /\ obs.volCalls = <<>>
    /\ obs.serWrites = <<>>
    /\ CurrentValues = obs.before

\* the text the claim C9 gives a slot: the first 8 characters of its channel
\* (the placeholder without one), ": ", the percentage pct, "%"
C9_Text(j, pct) ==
  (IF obs.table[j] = None THEN <<45, 45, 45>>
   ELSE SubSeq(obs.table[j][1], 1, Min(8, Len(obs.table[j][1]))))
    \o <<58, 32>> \o IntToStr(pct) \o <<37>>

\* C9 as amended: the text for a slot with value v in 0..127 carries the
\* percentage v*100/127 truncated to an integer.
C9_TextTruncatedPercent ==
  \A j \in 1..Len(obs.texts) :
    obs.vals[j] \in 0..127 =>
      obs.texts[j] = C9_Text(j, (obs.vals[j] * 100) \div 127)

\* C9 as stated: the text carries the percentage round(v/127*100).
C9_TextRoundedPercent ==
  \A j \in 1..Len(obs.texts) :
    obs.vals[j] \in 0..127 =>
      obs.texts[j] = C9_Text(j, (obs.vals[j] * 200 + 127) \div 254)

\* the texts of a whole report whose first value is 10
C9_Witness ==
  /\ obs.kind = "report"
  /\ Len(obs.texts) = FADER_COUNT
  /\ obs.vals[1] = 10

\* C10: two consecutive discovery attempts are always the same number of
\* disconnected ticks apart, and more than one tick apart.
C10_FixedCadence ==
  cadence.last # 0 => (cadence.last > 1 /\ cadence.last = cadence.first)

\* C11: an assignment to a valid slot index with a channel makes that slot's
\* assignment the channel and leaves the other four assignments, the five
\* values and the page as they were.
C11_AssignSetsSlot ==
  (tobs.op = "assign" /\ tobs.slot \in 0..4 /\ tobs.ch # None) =>
    /\ fader_assignments[tobs.slot + 1] = tobs.ch
    /\ \A j \in 1..5 :
         j # tobs.slot + 1 => fader_assignments[j] = tobs.before.fader_assignments[j]
    /\ fader_sliders = tobs.before.fader_values
    /\ page = tobs.before.page

\* Zoom.exe was dropped on slot 3 of a table restored from a file, with
\* another slot assigned, a dragged value and page 1
C11_Witness ==
  /\ tobs.op = "assign"
  /\ tobs.slot = 3
  /\ fader_assignments[4] = Some(NameZoom)
  /\ tobs.before.fader_assignments[2] = Some(NameChrome)
  /\ tobs.before.fader_values[1] = 100
  /\ tobs.before.page = 1

\* C12: an assignment to a slot index outside 0..4 fails with an error and
\* leaves the assignments as they were.
C12_InvalidSlotRejected ==
  (tobs.op = "assign" /\ tobs.slot \notin 0..4) =>
    (tobs.raised /\ fader_assignments = tobs.before.fader_assignments)

\* the settings file f has the persisted shape: an object with five
\* assignments, five values in 0..127 and a page
C13_WellFormed(f) ==
  /\ f # None
  /\ DOMAIN f[1] = {"fader_assignments", "fader_values", "page"}
  /\ Len(f[1].fader_assignments) = 5
  /\ Len(f[1].fader_values) = 5
  /\ \A j \in 1..5 : f[1].fader_values[j] \in 0..127

\* C13: restoring from a settings file that is missing or does not have the
\* persisted shape gives the default table (slot 0 the master, the other
\* slots unassigned, no value and no page taken from the file) and raises
\* nothing.
C13_RestoreDefaults ==
  (tobs.op = "restore" /\ ~C13_WellFormed(tobs.file)) =>
    /\ fader_assignments = <<Some(SystemMasterVolume), None, None, None, None>>
    /\ fader_sliders = <<64, 64, 64, 64, 64>>
    /\ page = 0
    /\ ~tobs.raised

\* C14: turning a page (which refreshes the directory shown) leaves every
\* slot's assignment as it was.
C14_PagingKeepsAssignments ==
  tobs.op \in {"prev_page", "next_page"} =>
    fader_assignments = tobs.before.fader_assignments

\* C15: after an operation of the user that changed an assignment, a value
\* or the page, and in which no write failed, the settings file holds the
\* table.
C15_PersistedAfterMutation ==
  (/\ tobs.op \in {"assign", "prev_page", "next_page", "set_value"}
   /\ Snapshot # tobs.before
   /\ ~tobs.saveFailed) =>
    settings_file = Some(Snapshot)

\* the directory the last call of get_processes returned
DirList == dirOut[1].out.list

\* the backend reported an audio session of a process named like n
HasSession(n) ==
  /\ dirOut[1].enumOk
  /\ \E i \in DOMAIN dirIn.sessions :
       dirIn.sessions[i] # <<>> /\ LowerStr(dirIn.sessions[i]) = LowerStr(n)

\* the entries from..to of the directory are in case-insensitive order
DirOrdered(from, to) ==
  \A i \in from..(to - 1) : ~StrLess(LowerStr(DirList[i + 1]), LowerStr(DirList[i]))

\* C16: a returned directory starts with "System Master Volume", followed by
\* the entries that have an audio session in case-insensitive alphabetical
\* order, followed by the entries that have none in case-insensitive
\* alphabetical order.
C16_DirectoryOrdered ==
  (dirOut # None /\ ~dirOut[1].out.raised) =>
    /\ Len(DirList) >= 1
    /\ DirList[1] = SystemMasterVolume
    /\ \E k \in 1..Len(DirList) :
         /\ \A i \in 2..k : HasSession(DirList[i])
         /\ \A i \in (k + 1)..Len(DirList) : ~HasSession(DirList[i])
         /\ DirOrdered(2, k)
         /\ DirOrdered(k + 1, Len(DirList))

\* cybermix.py returned a directory whose session group is foo.exe, Zoom.exe
\* (the capital sorts after the small letter) and whose other group is
\* chrome.exe
C16_Witness ==
  /\ dirOut # None
  /\ dirOut[1].program = "gui"
  /\ DirList = <<SystemMasterVolume, NameFoo, NameZoom, NameChrome>>

\* C17: no two entries of a returned directory are equal case-insensitively.
C17_NoCaseInsensitiveDuplicates ==
  (dirOut # None /\ ~dirOut[1].out.raised) =>
    \A i, j \in DOMAIN DirList :
      i < j => LowerStr(DirList[i]) # LowerStr(DirList[j])

\* the tick loop has ended
LoopTerminated ==
  IF variant = "cli" THEN pc \in {"crashed", "interrupted", "stopped"}
  ELSE worker \in {"done", "raised"}

\* a stop has been requested
StopRequested ==
  IF variant = "cli" THEN pc \in {"interrupted", "stopped"} ELSE ui # "idle"

\* the stop has run to its end
StopCompleted ==
  IF variant = "cli" THEN pc = "stopped" ELSE ui = "exited"

\* C18: the tick loop ends only after a stop was requested, and once the stop
\* has run to its end the loop has ended and no serial connection is open.
C18_StopEndsLoopAndCloses ==
  /\ LoopTerminated => StopRequested
  /\ StopCompleted => (LoopTerminated /\ (ser = None \/ closed))

\* C19: no read of the worker overlaps the close of the connection, and the
\* worker never uses the connection after it was closed.
C19_NoConcurrentPortAccess ==
  /\ ~sobs.overlap
  /\ ~sobs.afterClose
  /\ ~(worker = "reading" /\ ui = "closing")

\* C20: every name the backend reported an audio session for is in the
\* returned directory (in the spelling of its first occurrence).
C20_SessionNamesIncluded ==
  (dirOut # None /\ ~dirOut[1].out.raised /\ dirOut[1].enumOk) =>
    \A n \in DOMAIN dirIn.sessions :
      dirIn.sessions[n] # <<>> =>
        \E i \in DOMAIN DirList : LowerStr(DirList[i]) = LowerStr(dirIn.sessions[n])

\* C21: after a decoded report the value held for every slot is the frame's
\* byte bounded to 127, every scalar handed to the volume backend lies in
\* 0..1, and no text shows a percentage above 100.
C21_ClampedTo127 ==
  obs.kind = "report" =>
    /\ \A j \in 1..Len(CurrentValues) : CurrentValues[j] \in 0..127
    /\ obs.cause = "" =>
         \A j \in 1..Len(CurrentValues) : CurrentValues[j] = Min(obs.vals[j], 127)
    /\ \A n \in DOMAIN obs.volCalls :
         /\ obs.volCalls[n].num >= 0
         /\ obs.volCalls[n].num <= obs.volCalls[n].den
    /\ \A j \in 1..Len(obs.texts) :
         \E pct \in 0..100 : obs.texts[j] = C9_Text(j, pct)

\* the sessions of volIn that match its channel, by index
VolMatching ==
  {i \in DOMAIN volIn.sessions : SessionMatches(volIn.sessions[i], volIn.ch)}

\* C22: a volume call for a channel other than the master changes no session
\* but the first one, in enumeration order, whose process name contains the
\* channel name whatever the case; with no such session it changes nothing
\* and raises no error.
C22_FirstMatchOnly ==
  (volOut # None /\ volIn.ch # SystemMasterVolume /\ volOut[1].enumOk) =>
    LET out == volOut[1].out
    IN  /\ Len(out.changed) <= 1
        /\ \A n \in DOMAIN out.changed :
             /\ out.changed[n] \in VolMatching
             /\ \A i \in VolMatching : out.changed[n] <= i
        /\ VolMatching = {} => (out.changed = <<>> /\ ~out.raised)

\* the bytes the programs have taken out of the input buffer
Consumed == 6 * Len(sent) - Len(wire) - Len(rxBuf)

\* C23: when the device sends only whole reports with bytes in 0..127, bytes
\* leave the input buffer six at a time, every six bytes taken are a decoded
\* report, and the decode that takes the k-th six bytes returns the payload
\* of the k-th report sent: none is skipped, repeated, out of order or made
\* of the bytes of two reports.
C23_DecodesFollowFrames ==
  /\ Consumed % 6 = 0
  /\ obs.read # None =>
       LET rd == obs.read[1]
       IN  /\ rd.after # rd.before => rd.result # None
           /\ rd.result # None =>
                /\ Consumed >= 6
                /\ Len(rd.before) - Len(rd.after) = 6
                /\ rd.result = sent[Consumed \div 6]

\* the second report was decoded from a buffer that already held the first
\* byte of the third, and differs from the first report
C23_Witness ==
  /\ obs.read # None
  /\ obs.read[1].result # None
  /\ Consumed = 12
  /\ Len(obs.read[1].before) = 7
  /\ Len(sent) = 3
  /\ sent[1] # sent[2]

\* max(0, (len(self.processes) - 1) // 5)
LastPage == Max(0, (Len(processes) - 1) \div 5)

\* C24: starting from page 0, the page stays within 0..LastPage whatever
\* sequence of prev_page and next_page is run; prev_page at page 0 and
\* next_page at the last page leave the page and the five assignments as they
\* were.
C24_PageWithinBounds ==
  /\ page >= 0
  /\ page <= LastPage
  /\ (tobs.op = "prev_page" /\ tobs.before.page = 0) =>
       (page = 0 /\ fader_assignments = tobs.before.fader_assignments)
  /\ (tobs.op = "next_page" /\ tobs.before.page = LastPage) =>
       (page = LastPage /\ fader_assignments = tobs.before.fader_assignments)

\* next_page was run on the last page of a directory of two pages, on a
\* table that is no longer the default one
C24_Witness ==
  /\ tobs.op = "next_page"
  /\ tobs.before.page = 1
  /\ LastPage = 1
  /\ page = 1
  /\ fader_assignments # DefaultAssignments

=============================================================================
